---- MODULE Spec2Model ----
(***************************************************************************)
(* Model of src/server/server.py: the three FastAPI handlers               *)
(* upload_images (/imgUpload), search_similar_images (/search) and         *)
(* query_images (/query) over the module globals faiss_index and           *)
(* image_paths.                                                            *)
(*                                                                         *)
(* Every handler is an `async def` whose body holds no await, so the       *)
(* event loop runs a handler from its first line to its return before it   *)
(* starts the next one.  The handlers are nevertheless modelled line group *)
(* by line group (pc labels name the next source line), and the event loop *)
(* is modelled by the variable running: a handler step is taken by the     *)
(* running coroutine only, and the loop is handed over only at an await    *)
(* (AwaitsAt) or at the return.                                            *)
(***************************************************************************)
EXTENDS Integers, Sequences, FiniteSets, TLC

VARIABLES
    faiss_index,   \* global faiss_index (line 48): None or an IndexFlatL2 object
    image_paths,   \* global image_paths (line 49): list of uris
    tasks,         \* per request slot: position and locals of the coroutine
    running,       \* the coroutine the event loop is executing, or NoTask
    resp,          \* the response in flight to the client, or NoResp (observation)
    index_of,      \* history: the running upload that created the object in faiss_index
    same_gen,      \* history: faiss_index and image_paths were assigned by one upload
    cur_uris,      \* history: the uris of the upload that passed line 143 last
    prev_uris,     \* history: the uris of the upload that passed line 143 before it
    issued         \* history: the tokens the last two successful uploads returned

vars == <<faiss_index, image_paths, tasks, running, resp, index_of, same_gen,
          cur_uris, prev_uris, issued>>

----------------------------------------------------------------------------
\* Bounds of the model

MaxManifest == 2      \* longest manifest.json of an upload
MaxK == 3             \* largest k of a /search request

\* k of /query (line 234)
QueryK == 5

Tasks == {"t1", "t2"}
NoTask == "none"
Uris == {"a", "b"}
\* feature vectors the embedding provider can return: two of dimension 1 and
\* one of dimension 2 (an inconsistent provider)
Vecs == {<<0>>, <<2>>, <<1, 1>>}

----------------------------------------------------------------------------
\* Values

Range(s) == {s[i] : i \in 1..Len(s)}

Min(a, b) == IF a < b THEN a ELSE b

\* faiss_index = None (line 48)
None == [isNone |-> TRUE, d |-> 0, xb |-> <<>>]

\* faiss.IndexFlatL2(dimension) (line 141): an empty index object
IndexFlatL2(dimension) == [isNone |-> FALSE, d |-> dimension, xb |-> <<>>]

\* the distance faiss reports for a result position it could not fill
FLT_MAX == 2147483647

\* What the archive and the provider hold for one manifest pair.  The pair's
\* key (processed_filename) is its position in the manifest.  file is
\* "missing" (line 109), "undecodable" (Image.open raises, line 115),
\* "unextractable" (extract_features raises, line 118) or "ok".  The uri of a
\* pair that is skipped is never read, so one uri stands for it.
FailStates == {"missing", "undecodable", "unextractable"}
Items ==
    {[uri |-> "a", file |-> f, vec |-> <<>>] : f \in FailStates}
    \cup {[uri |-> u, file |-> "ok", vec |-> v] : u \in Uris, v \in Vecs}

SeqsUpTo(S, n) == UNION {[1..m -> S] : m \in 0..n}

Manifests == SeqsUpTo(Items, MaxManifest)

\* the uploads a client can send
UploadRequests ==
    {[upload |-> k, manifest |-> <<>>] :
        k \in {"not_zip", "no_manifest", "malformed_manifest"}}
    \cup {[upload |-> "zip", manifest |-> m] : m \in Manifests}

Tokens == {"tok1", "tok2"}
NoToken == "none"

\* the query images a client can send to /search.  token is a token the
\* client names beside them, or NoToken; the handler has no parameter for it
\* (line 175), so it is never read.
SearchRequests ==
    {[k |-> k, image |-> f, vec |-> <<>>, token |-> NoToken] :
        k \in 1..MaxK, f \in {"undecodable", "unextractable"}}
    \cup {[k |-> k, image |-> "ok", vec |-> v, token |-> tk] :
            k \in 1..MaxK, v \in Vecs, tk \in Tokens \cup {NoToken}}

NoResp == [op |-> "none"]
Idle == [pc |-> "idle"]

Globals == [faiss_index |-> faiss_index, image_paths |-> image_paths]

----------------------------------------------------------------------------
\* The event loop

\* handlers that hand the loop over between their line groups (as with an
\* awaited extraction, index build or search)
AwaitsAt_everywhere(pc) == TRUE

\* whether the handler awaits before the line group pc names.  No handler
\* body contains an await.
AwaitsAt(pc) == FALSE

\* task t may take its step at pc
MayStep(t, pc) ==
    /\ tasks[t].pc = pc
    /\ \/ running = t
       \/ running = NoTask /\ AwaitsAt(pc)

\* A request is taken up when the loop is free; it gets the first free slot.
\* The previous response has left for the client by then.
MayStart(t) ==
    /\ tasks[t].pc = "idle"
    /\ running = NoTask
    /\ resp = NoResp
    /\ t = "t1" \/ tasks["t1"].pc # "idle"

\* the loop after t moved to pc
Next_running(t, pc) == IF AwaitsAt(pc) THEN NoTask ELSE t

\* the handler of t returns r
Return(t, r) ==
    /\ tasks' = [tasks EXCEPT ![t] = Idle]
    /\ running' = NoTask
    /\ resp' = r
    /\ index_of' = IF index_of = t THEN NoTask ELSE index_of

\* t moves on to locals.pc
Goto(t, locals) ==
    /\ tasks' = [tasks EXCEPT ![t] = locals]
    /\ running' = Next_running(t, locals.pc)
    /\ resp' = resp

\* the response leaves for the client
Deliver ==
    /\ resp # NoResp
    /\ resp' = NoResp
    /\ UNCHANGED <<faiss_index, image_paths, tasks, running, index_of, same_gen,
                   cur_uris, prev_uris, issued>>

----------------------------------------------------------------------------
\* upload_images, lines 52-172

\* line 121 moved in front of the try of line 113: the uri of a pair whose
\* file exists is recorded before its image is opened
LoopBody_uri_first(it, acc) ==
    IF it.file = "missing" THEN acc
    ELSE IF it.file \in {"undecodable", "unextractable"}
         THEN [acc EXCEPT !.valid_image_paths_local = Append(@, it.uri)]
    ELSE [image_features |-> Append(acc.image_features, it.vec),
          valid_image_paths_local |-> Append(acc.valid_image_paths_local, it.uri)]

\* one iteration of the loop of lines 106-126 on the pair it, acc holding
\* image_features and valid_image_paths_local
LoopBody(it, acc) ==
    IF it.file = "missing" THEN acc                       \* 109-111 continue
    ELSE IF it.file \in {"undecodable", "unextractable"}
         THEN acc                                          \* 115/118 raise, 124-126
    ELSE [image_features |-> Append(acc.image_features, it.vec),          \* 120
          valid_image_paths_local |-> Append(acc.valid_image_paths_local, it.uri)] \* 121

RECURSIVE ProcessManifest(_, _, _)
ProcessManifest(manifest, i, acc) ==
    IF i > Len(manifest) THEN acc
    ELSE ProcessManifest(manifest, i + 1, LoopBody(manifest[i], acc))

\* the test of line 135 left out
NoFeatures_untested(image_features) == FALSE

\* `if image_features:` (line 135) takes the else branch of line 161
NoFeatures(image_features) == image_features = <<>>

\* an np.array that pads the shorter vectors instead of raising
NpArrayRaises_padded(image_features) == image_features = <<>>

\* np.array(image_features).astype('float32') (line 139) raises unless all
\* feature vectors have one length, and shape[1] (line 140) raises on an
\* array without rows
NpArrayRaises(image_features) ==
    \/ image_features = <<>>
    \/ \E i, j \in 1..Len(image_features) :
            Len(image_features[i]) # Len(image_features[j])

\* faiss_index.add(image_features) (line 142) on the index object ix
IndexAdd(ix, image_features) == [ix EXCEPT !.xb = @ \o image_features]

\* a response of /imgUpload.  raised, req, pre and image_features are
\* history: the line that raised (0: none), the request, the globals when the
\* handler started, and its local image_features.
UploadResp(locals, status, message, raised, body) ==
    [op |-> "upload", status |-> status, message |-> message, body |-> body,
     raised |-> raised, req |-> locals.req, pre |-> locals.pre,
     image_features |-> locals.image_features]

\* lines 55-132: the checks, the extraction of the archive, the manifest and
\* the feature loop; nothing but locals is touched
UploadStart(t) ==
    /\ MayStart(t)
    /\ \E req \in UploadRequests :
        LET l0 == [pc |-> "l135", op |-> "upload", req |-> req, pre |-> Globals,
                   image_features |-> <<>>, valid_image_paths_local |-> <<>>]
        IN
        IF req.upload = "not_zip"
        THEN Return(t, UploadResp(l0, 400, "Only ZIP files are accepted", 0, <<>>)) \* 58-62
        ELSE IF req.upload = "no_manifest"
        THEN Return(t, UploadResp(l0, 400,
                    "manifest.json not found in the ZIP file", 0, <<>>))     \* 87-91
        ELSE IF req.upload = "malformed_manifest"
        THEN Return(t, UploadResp(l0, 500, "An error occurred", 94, <<>>))    \* 94, 167-172
        ELSE LET acc == ProcessManifest(req.manifest, 1,
                            [image_features |-> <<>>,
                             valid_image_paths_local |-> <<>>])
             IN /\ Goto(t, [l0 EXCEPT
                        !.image_features = acc.image_features,
                        !.valid_image_paths_local = acc.valid_image_paths_local])
                /\ UNCHANGED index_of
    /\ UNCHANGED <<faiss_index, image_paths, same_gen, cur_uris, prev_uris, issued>>

\* lines 135-141: the emptiness test, np.array and the new index object
UploadBuild(t) ==
    /\ MayStep(t, "l135")
    /\ LET l == tasks[t] IN
        IF NoFeatures(l.image_features)
        THEN /\ Return(t, UploadResp(l, 400,
                        "No valid images found in the ZIP file", 0, <<>>))   \* 161-165
             /\ UNCHANGED <<faiss_index, same_gen>>
        ELSE IF NpArrayRaises(l.image_features)
        THEN /\ Return(t, UploadResp(l, 500, "An error occurred", 139, <<>>))  \* 139, 167-172
             /\ UNCHANGED <<faiss_index, same_gen>>
        ELSE /\ faiss_index' = IndexFlatL2(Len(l.image_features[1]))      \* 140-141
             /\ index_of' = t
             /\ same_gen' = FALSE
             /\ Goto(t, [l EXCEPT !.pc = "l142"])
    /\ UNCHANGED <<image_paths, cur_uris, prev_uris, issued>>

\* line 142: faiss_index.add on the global; the call can raise (allocation
\* failure), which the handler catches at line 167
UploadAdd(t) ==
    /\ MayStep(t, "l142")
    /\ LET l == tasks[t] IN
        \/ /\ faiss_index' = IndexAdd(faiss_index, l.image_features)
           /\ Goto(t, [l EXCEPT !.pc = "l143"])
           /\ UNCHANGED index_of
        \/ /\ Return(t, UploadResp(l, 500, "An error occurred", 142, <<>>))
           /\ UNCHANGED faiss_index
    /\ UNCHANGED <<image_paths, same_gen, cur_uris, prev_uris, issued>>

\* image_paths.extend(valid_image_paths_local) in place of the assignment
Publish_extend(old_paths, valid_image_paths_local) ==
    old_paths \o valid_image_paths_local

\* the value line 143 assigns to image_paths
Publish(old_paths, valid_image_paths_local) == valid_image_paths_local

\* lines 143-160: image_paths, the token and the 200 response
UploadPublish(t) ==
    /\ MayStep(t, "l143")
    /\ LET l == tasks[t] IN
        /\ image_paths' = Publish(image_paths, l.valid_image_paths_local)
        /\ same_gen' = (index_of = t)
        /\ cur_uris' = Range(l.valid_image_paths_local)
        /\ prev_uris' = cur_uris
        /\ \E token \in Tokens :                                  \* 149
            /\ issued' = [cur |-> token, prev |-> issued.cur]
            /\ Return(t, UploadResp(l, 200,
                "Images processed and index created successfully", 0,
                [token |-> token,
                 image_count |-> Len(l.valid_image_paths_local),
                 processed_files |-> l.valid_image_paths_local]))
    /\ UNCHANGED faiss_index

----------------------------------------------------------------------------
\* The calls into faiss and the list indexing of Python

RECURSIVE SumSq(_, _, _)
SumSq(a, b, i) ==
    IF i > Len(a) THEN 0
    ELSE (a[i] - b[i]) * (a[i] - b[i]) + SumSq(a, b, i + 1)

\* squared Euclidean distance, the metric of IndexFlatL2
L2(a, b) == SumSq(a, b, 1)

\* faiss_index.search(q, k) on the index object ix, for a query of ix's
\* dimension: k positions, the stored vectors by ascending distance (equal
\* distances by ascending ordinal); a position the index cannot fill holds
\* the label -1 and the distance FLT_MAX.  Labels are ordinals from 0.
IndexSearch(ix, q, k) ==
    LET n == Len(ix.xb)
        dist(i) == L2(ix.xb[i], q)
        Before(i, j) == dist(i) < dist(j) \/ (dist(i) = dist(j) /\ i < j)
        rank(i) == Cardinality({j \in 1..n : Before(j, i)})
        at(p) == CHOOSE i \in 1..n : rank(i) = p - 1
    IN [labels |-> [p \in 1..k |-> IF p <= n THEN at(p) - 1 ELSE -1],
        distances |-> [p \in 1..k |-> IF p <= n THEN dist(at(p)) ELSE FLT_MAX]]

\* the search raises when the query's dimension is not the index's
SearchRaises(ix, q) == Len(q) # ix.d

\* faiss_index.reconstruct(i) raises outside [0, ntotal), and on None
ReconstructRaises(ix, i) == ix.isNone \/ i < 0 \/ i >= Len(ix.xb)
Reconstruct(ix, i) == ix.xb[i + 1]

\* list[idx] of Python: a negative idx counts from the end; IndexError
\* outside [-len, len)
PyIndexRaises(list, idx) == idx < -Len(list) \/ idx >= Len(list)
PyIndex(list, idx) == IF idx >= 0 THEN list[idx + 1] ELSE list[Len(list) + idx + 1]

\* [image_paths[idx] for idx in indices[0]] (lines 203, 239)
MapRaises(paths, labels) == \E p \in 1..Len(labels) : PyIndexRaises(paths, labels[p])
MapUris(paths, labels) == [p \in 1..Len(labels) |-> PyIndex(paths, labels[p])]

\* a lookup that keeps the last position holding uri (as a uri -> ordinal
\* dictionary filled in ordinal order would)
ListIndex_last(paths, uri) ==
    (CHOOSE i \in 1..Len(paths) :
        paths[i] = uri /\ \A j \in (i + 1)..Len(paths) : paths[j] # uri) - 1

\* image_paths.index(uri) (line 227): the first position holding uri, from 0
ListIndex(paths, uri) ==
    (CHOOSE i \in 1..Len(paths) :
        paths[i] = uri /\ \A j \in 1..(i - 1) : paths[j] # uri) - 1

----------------------------------------------------------------------------
\* search_similar_images, lines 175-213

\* a response of /search or /query.  vec, labels, index_seen, paths_seen and
\* gen_ok are history: the vector searched with and what the handler read
\* from the globals.
ReadResp(l, status, body) ==
    [op |-> l.op, status |-> status, body |-> body, req |-> l.req, pre |-> l.pre,
     labels |-> l.labels, index_seen |-> l.index_seen, gen_ok |-> l.gen_ok,
     paths_seen |-> image_paths, vec |-> l.vec]

ReadLocals(op, req) ==
    [pc |-> "idle", op |-> op, req |-> req, pre |-> Globals, vec |-> <<>>,
     labels |-> <<>>, distances |-> <<>>, index_seen |-> None, gen_ok |-> TRUE]

SearchError == [message |-> "An error occurred during search"]

\* lines 176-196: the None test, the decoding and the features of the image
SearchStart(t) ==
    /\ MayStart(t)
    /\ \E req \in SearchRequests :
        LET l == ReadLocals("search", req) IN
        IF faiss_index.isNone
        THEN Return(t, ReadResp(l, 500,
                [message |-> "FAISS index is not initialized"]))          \* 177-181
        ELSE IF req.image # "ok"
        THEN Return(t, ReadResp(l, 500, SearchError))                     \* 191/192, 208
        ELSE /\ Goto(t, [l EXCEPT !.pc = "l199", !.vec = req.vec])
             /\ UNCHANGED index_of
    /\ UNCHANGED <<faiss_index, image_paths, same_gen, cur_uris, prev_uris, issued>>

\* a handler that also stores the query vector in the index it searches
SearchIndex_adds(t) ==
    /\ MayStep(t, "l199")
    /\ LET l == tasks[t] IN
        IF SearchRaises(faiss_index, l.vec)
        THEN /\ Return(t, ReadResp(l, 500, SearchError))
             /\ UNCHANGED faiss_index
        ELSE LET r == IndexSearch(faiss_index, l.vec, l.req.k) IN
             /\ Goto(t, [l EXCEPT !.pc = "l203", !.labels = r.labels,
                                  !.distances = r.distances,
                                  !.index_seen = faiss_index,
                                  !.gen_ok = same_gen])
             /\ faiss_index' = IndexAdd(faiss_index, <<l.vec>>)
             /\ UNCHANGED index_of
    /\ UNCHANGED <<image_paths, same_gen, cur_uris, prev_uris, issued>>

\* line 199: the search in the global index
SearchIndex(t) ==
    /\ MayStep(t, "l199")
    /\ LET l == tasks[t] IN
        IF SearchRaises(faiss_index, l.vec)
        THEN Return(t, ReadResp(l, 500, SearchError))
        ELSE LET r == IndexSearch(faiss_index, l.vec, l.req.k) IN
             /\ Goto(t, [l EXCEPT !.pc = "l203", !.labels = r.labels,
                                  !.distances = r.distances,
                                  !.index_seen = faiss_index,
                                  !.gen_ok = same_gen])
             /\ UNCHANGED index_of
    /\ UNCHANGED <<faiss_index, image_paths, same_gen, cur_uris, prev_uris, issued>>

\* lines 203-206: the labels mapped through the global image_paths
SearchMap(t) ==
    /\ MayStep(t, "l203")
    /\ LET l == tasks[t] IN
        IF MapRaises(image_paths, l.labels)
        THEN Return(t, ReadResp(l, 500, SearchError))
        ELSE Return(t, ReadResp(l, 200,
                [similar_images |-> MapUris(image_paths, l.labels),
                 distances |-> l.distances]))
    /\ UNCHANGED <<faiss_index, image_paths, same_gen, cur_uris, prev_uris, issued>>

----------------------------------------------------------------------------
\* query_images, lines 216-248

UriNotFound == [error |-> "URI not found"]
QueryError == [error |-> "An error occurred"]

\* lines 218-227: the membership test and the first position of the uri
QueryStart(t) ==
    /\ MayStart(t)
    /\ \E uri \in Uris :
        LET l == [ReadLocals("query", [uri |-> uri]) EXCEPT !.pc = "l230"] IN
        IF uri \notin Range(image_paths)
        THEN Return(t, ReadResp(l, 200, UriNotFound))                     \* 223-225
        ELSE /\ Goto(t, [query_idx |-> ListIndex(image_paths, uri)] @@ l)
             /\ UNCHANGED index_of
    /\ UNCHANGED <<faiss_index, image_paths, same_gen, cur_uris, prev_uris, issued>>

\* lines 230-235: the stored vector of query_idx and the search with k = 5
QuerySearch(t) ==
    /\ MayStep(t, "l230")
    /\ LET l == tasks[t] IN
        IF ReconstructRaises(faiss_index, l.query_idx)
        THEN Return(t, ReadResp(l, 200, QueryError))                      \* 246-248
        ELSE LET q == Reconstruct(faiss_index, l.query_idx)
                 r == IndexSearch(faiss_index, q, QueryK)
             IN /\ Goto(t, [l EXCEPT !.pc = "l239", !.vec = q,
                                     !.labels = r.labels,
                                     !.distances = r.distances,
                                     !.index_seen = faiss_index,
                                     !.gen_ok = same_gen])
                /\ UNCHANGED index_of
    /\ UNCHANGED <<faiss_index, image_paths, same_gen, cur_uris, prev_uris, issued>>

\* lines 239-242: the labels mapped through the global image_paths
QueryMap(t) ==
    /\ MayStep(t, "l239")
    /\ LET l == tasks[t] IN
        IF MapRaises(image_paths, l.labels)
        THEN Return(t, ReadResp(l, 200, QueryError))
        ELSE Return(t, ReadResp(l, 200,
                [similar_images |-> MapUris(image_paths, l.labels),
                 distances |-> l.distances]))
    /\ UNCHANGED <<faiss_index, image_paths, same_gen, cur_uris, prev_uris, issued>>

----------------------------------------------------------------------------
Init ==
    /\ faiss_index = None
    /\ image_paths = <<>>
    /\ tasks = [t \in Tasks |-> Idle]
    /\ running = NoTask
    /\ resp = NoResp
    /\ index_of = NoTask
    /\ same_gen = TRUE
    /\ cur_uris = {}
    /\ prev_uris = {}
    /\ issued = [cur |-> NoToken, prev |-> NoToken]

Next ==
    \/ Deliver
    \/ \E t \in Tasks :
        \/ UploadStart(t)
        \/ UploadBuild(t)
        \/ UploadAdd(t)
        \/ UploadPublish(t)
        \/ SearchStart(t)
        \/ SearchIndex(t)
        \/ SearchMap(t)
        \/ QueryStart(t)
        \/ QuerySearch(t)
        \/ QueryMap(t)

Spec == Init /\ [][Next]_vars

----------------------------------------------------------------------------
\* Properties.  They are stated on resp, the response of the handler that
\* returned last, while it is in flight: no handler runs between the return
\* and the delivery, so the globals are those the handler left.

IsOk(it) == it.file = "ok"

\* the manifest pairs that are neither missing, undecodable nor unextractable,
\* in manifest order
Survivors(manifest) == SelectSeq(manifest, IsOk)

\* the keys (positions) of the manifest pairs that are soft-skipped
SkippedKeys(manifest) == {i \in 1..Len(manifest) : ~IsOk(manifest[i])}

Answered == resp.op \in {"search", "query"} /\ "similar_images" \in DOMAIN resp.body

\* C1: /query never returns the queried entry itself (the entry at the first
\* ordinal whose uri matches) among the neighbours it answers with.
C1_NoSelfInNeighbors ==
    (resp.op = "query" /\ Answered) =>
        ListIndex(resp.pre.image_paths, resp.req.uri) \notin Range(resp.labels)

\* C2: /search on an index of N >= 1 entries answers with exactly min(k, N)
\* matches, each the uri of the entry at the ordinal the index search returned
\* for that position.
C2_SearchReturnsMinKN ==
    (resp.op = "search" /\ Answered /\ Len(resp.index_seen.xb) >= 1) =>
        /\ Len(resp.body.similar_images) = Min(resp.req.k, Len(resp.index_seen.xb))
        /\ \A p \in 1..Len(resp.body.similar_images) :
              /\ resp.labels[p] \in 0..(Len(resp.pre.image_paths) - 1)
              /\ resp.body.similar_images[p] = resp.pre.image_paths[resp.labels[p] + 1]

\* an upload whose manifest resolves to zero usable items has returned
EmptyBatchReturned ==
    /\ resp.op = "upload"
    /\ resp.req.upload = "zip"
    /\ Survivors(resp.req.manifest) = <<>>

\* C3: an upload whose manifest resolves to zero usable items answers 400 "No
\* valid images found" and leaves faiss_index and image_paths as they were
\* when it started.
C3_EmptyBatchLeavesGeneration ==
    EmptyBatchReturned =>
        /\ resp.status = 400
        /\ resp.message = "No valid images found in the ZIP file"
        /\ Globals = resp.pre

\* an empty batch has returned while a generation was active
C3_Witness ==
    /\ EmptyBatchReturned
    /\ Len(resp.req.manifest) >= 1
    /\ ~resp.pre.faiss_index.isNone
    /\ resp.pre.image_paths # <<>>

\* the uris that only the generation before the active one held
GoneUris == prev_uris \ cur_uris

\* C4: after two successive successful uploads G1 then G2, no uri that /search
\* or /query returns belongs to G1 only, and /query for a uri of G1 only
\* answers "URI not found".
C4_OnlySecondGeneration ==
    (resp.op \in {"search", "query"}) =>
        /\ Answered => Range(resp.body.similar_images) \cap GoneUris = {}
        /\ (resp.op = "query" /\ resp.req.uri \in GoneUris) => resp.body = UriNotFound

\* /query for a uri that only the replaced generation held was answered
C4_Witness ==
    /\ resp.op = "query"
    /\ resp.req.uri \in GoneUris
    /\ resp.body = UriNotFound
    /\ cur_uris # {}

\* a successful upload has returned
Uploaded == resp.op = "upload" /\ resp.status = 200

\* C5: items that soft-fail never abort the batch: the generation a successful
\* upload leaves holds exactly the surviving pairs in manifest order, the
\* vector at ordinal i and the uri at position i coming from one pair, and
\* image_count is their number; an upload with survivors of one dimension
\* fails only if faiss_index.add raises.
C5_SurvivorsInManifestOrder ==
    (resp.op = "upload" /\ resp.req.upload = "zip") =>
        LET sv == Survivors(resp.req.manifest)
            n == Len(sv)
        IN /\ Uploaded =>
                /\ n >= 1
                /\ image_paths = [i \in 1..n |-> sv[i].uri]
                /\ faiss_index.xb = [i \in 1..n |-> sv[i].vec]
                /\ resp.body.image_count = n
           /\ (n >= 1 /\ \A i, j \in 1..n : Len(sv[i].vec) = Len(sv[j].vec)) =>
                (Uploaded \/ resp.raised = 142)

\* a successful upload whose first pair soft-failed: ordinal 0 is the second pair
C5_Witness ==
    /\ Uploaded
    /\ Len(resp.req.manifest) >= 2
    /\ ~IsOk(resp.req.manifest[1])
    /\ image_paths = <<resp.req.manifest[2].uri>>

\* C6: the response of a successful upload reports the list of skipped keys:
\* exactly the keys of the manifest pairs that were soft-skipped.
C6_SkippedKeysReported ==
    Uploaded =>
        /\ "skipped_keys" \in DOMAIN resp.body
        /\ Range(resp.body.skipped_keys) = SkippedKeys(resp.req.manifest)

\* C7: a /search or /query that starts before any upload assigned faiss_index
\* answers "index not initialized"; /query does not answer "URI not found".
C7_NotReadyBeforeFirstUpload ==
    (resp.op \in {"search", "query"} /\ resp.pre.faiss_index.isNone) =>
        /\ "message" \in DOMAIN resp.body
        /\ resp.body.message = "FAISS index is not initialized"

\* C8: the index a /search or /query searches and the uri list it maps the
\* labels through were assigned by one upload, and that index holds a vector
\* for each uri of the list.
C8_QueryUsesOneGeneration ==
    Answered =>
        /\ resp.gen_ok
        /\ Len(resp.index_seen.xb) = Len(resp.paths_seen)

\* no handler is under way
AllReturned == \A t \in Tasks : tasks[t].pc = "idle"

\* C9: once every upload has returned and the last to return succeeded,
\* faiss_index and image_paths are both the build of that upload, whatever
\* other uploads ran before or beside it.
C9_LastPublisherWins ==
    (Uploaded /\ AllReturned) =>
        /\ same_gen
        /\ faiss_index.xb = resp.image_features
        /\ image_paths = resp.body.processed_files

\* a second successful upload replaced the generation of an earlier one
C9_Witness ==
    /\ Uploaded
    /\ prev_uris # {}
    /\ resp.pre.image_paths # image_paths
    /\ resp.pre.faiss_index.xb # faiss_index.xb

\* an upload whose surviving items have vectors of different dimensions has returned
MixedReturned ==
    /\ resp.op = "upload"
    /\ resp.req.upload = "zip"
    /\ \E i, j \in 1..Len(resp.req.manifest) :
          /\ IsOk(resp.req.manifest[i]) /\ IsOk(resp.req.manifest[j])
          /\ Len(resp.req.manifest[i].vec) # Len(resp.req.manifest[j].vec)

\* C10: an upload whose surviving items differ in vector dimension fails as a
\* whole with status 500; faiss_index and image_paths stay as they were.
C10_MixedDimensionsFailWhole ==
    MixedReturned =>
        /\ resp.status = 500
        /\ resp.raised = 139
        /\ Globals = resp.pre

\* such an upload failed while a generation was active
C10_Witness ==
    /\ MixedReturned
    /\ resp.status = 500
    /\ resp.pre.image_paths # <<>>

\* an upload has returned a failure (400 or 500)
UploadFailed == resp.op = "upload" /\ resp.status # 200

\* C11: an upload that ends in a failure (not a ZIP, no manifest, malformed
\* manifest, mixed dimensions, an exception while the index is built or
\* filled) leaves faiss_index and image_paths as they were when it started.
C11_FailedUploadLeavesGlobals ==
    UploadFailed => Globals = resp.pre

\* the ordinals (from 0) of the entries of paths that hold uri
OrdinalsOf(paths, uri) == {i - 1 : i \in {j \in 1..Len(paths) : paths[j] = uri}}

\* the smallest member of a non-empty set of numbers
Least(S) == CHOOSE x \in S : \A y \in S : x <= y

\* C12: when several entries hold the queried uri, /query searches with the
\* stored vector of the one with the smallest ordinal.
C12_FirstMatchResolves ==
    (resp.op = "query" /\ Answered) =>
        LET first == Least(OrdinalsOf(resp.pre.image_paths, resp.req.uri))
        IN resp.vec = resp.pre.faiss_index.xb[first + 1]

\* /query was answered for a uri that two entries with different vectors hold
C12_Witness ==
    /\ resp.op = "query"
    /\ Answered
    /\ Cardinality(OrdinalsOf(resp.pre.image_paths, resp.req.uri)) >= 2
    /\ \E i \in OrdinalsOf(resp.pre.image_paths, resp.req.uri) :
          resp.pre.faiss_index.xb[i + 1] # resp.vec

\* a /search that names the token of the generation replaced last, which is
\* not the token of the active one, has returned
StaleTokenSearch ==
    /\ resp.op = "search"
    /\ resp.req.token # NoToken
    /\ resp.req.token = issued.prev
    /\ resp.req.token # issued.cur

\* C13: a /search that names the token of a superseded generation fails (it
\* is not answered), and one that names no token is answered from the active
\* generation.
C13_StaleTokenRejected ==
    /\ StaleTokenSearch => ~Answered
    /\ (resp.op = "search" /\ resp.req.token = NoToken /\ Answered) =>
            (resp.index_seen = faiss_index /\ resp.paths_seen = image_paths)

\* C14: no /search and no /query, whatever its outcome, changes faiss_index
\* or image_paths: both are as they were when the handler started.
C14_QueriesLeaveGlobals ==
    (resp.op \in {"search", "query"}) => Globals = resp.pre

\* a /search failed on a query vector whose dimension is not the index's,
\* while a generation was active
C14_Witness ==
    /\ resp.op = "search"
    /\ resp.status = 500
    /\ resp.req.image = "ok"
    /\ resp.pre.image_paths # <<>>
    /\ Len(resp.req.vec) # resp.pre.faiss_index.d
    /\ Len(resp.pre.faiss_index.xb) >= 1

\* C15: between handler executions faiss_index is None exactly when
\* image_paths is empty, and otherwise holds exactly len(image_paths) >= 1
\* vectors.
C15_GlobalsPaired ==
    AllReturned =>
        /\ faiss_index.isNone <=> image_paths = <<>>
        /\ ~faiss_index.isNone =>
              (Len(faiss_index.xb) = Len(image_paths) /\ Len(image_paths) >= 1)

====
